---- MODULE Spec2Model ----
(***************************************************************************)
(* A model of epic.caching: the content hasher and the memoized call       *)
(* (cached.py), the thread and process scoped stores with their locks      *)
(* (_cache.py) and the cached property descriptor (property.py).           *)
(***************************************************************************)
EXTENDS Integers, Sequences, FiniteSets, TLC

\* ------------------------------------------------------------------ bounds
\* threads making memoized calls
NThreads == 2
\* integer arguments of a memoized call are -2 .. MaxArg
MaxArg == 0
\* threads operating on the properties of one host
PThreads == 2
\* values of the host attribute x are 1 .. MaxX
MaxX == 2
\* operations on the host's properties and attributes per behaviour
MaxOps == 4
\* memoized calls per behaviour
MaxCalls == 2
\* length of the chain p0 .. p(ChainLen-1) of test_lock_collisions
ChainLen == 3

\* number of operations the threads make on the host with the chain, when
\* they read, write, delete and test
MaxAcyclicOps == 3

\* number of HasPickledCachedProperty instances alive at a time
MaxHosts == 2

\* memoized calls with several arguments made in one behaviour
MaxHashCalls == 2

\* ------------------------------------------------------- program constants
\* cached.py: partial(ProcessCache, n_locks=100)
CallNLocks == 100

VARIABLES
    \* ---- memoized calls (cached.py, _cache.py)
    made,           \* the stores created so far (lazily, on first use)
    cache_store,    \* ProcessCache: host[STORE_NAME], name -> cache (key -> value)
    pool_held,      \* ProcessCache.locks of a pooled store: the <<name, index>> now held
    thread_store,   \* ThreadCache.STORE: thread -> name -> cache
    frame,          \* each thread's activation of _cached_call_impl
    ncalls,         \* number of memoized calls made so far
    invoked,        \* history: store, key -> number of times callfunc ran for it
    \* ---- cached properties (property.py, _cache.py)
    cls,            \* the class of the host instance
    attrs,          \* the host's plain attributes
    n_locks,        \* ProcessCache.n_locks of the host's 'property_cache' store
    prop_cache,     \* the host's 'property_cache': property name -> (snapshot, value)
    locks,          \* the store's lock map: key -> lock object
    held,           \* the lock objects now held
    stack,          \* each thread's call stack of descriptor activations
    ret,            \* each thread's last completed operation and its outcome
    fresh,          \* number of objects created so far by functions and writers
    nops,           \* number of operations started so far
    hist,           \* history per property: last write in force, pending delete, ...
    \* ---- pickled cached properties (property.py)
    pk_x,           \* HasPickledCachedProperty instances: instance -> self.x
    pk_mem,         \* instance -> the 'prop' slot of its 'property_cache'
    pk_locks,       \* instance -> whether its lock map has an entry for 'prop'
    pk_files,       \* the directory tmp_path: file name -> pickled content
    pk_ret,         \* the last operation on a pickled property and its outcome
    pk_calls,       \* number of times the function of 'prop' has run
    pk_fresh,       \* number of objects made by random.random()
    pk_nops,        \* number of operations made so far
    \* ---- memoized calls made by memoized computations (cached.py, _cache.py)
    nest_stack,     \* thread -> its stack of activations of _cached_call_impl
    nest_cache,     \* the process store of 'rec': key -> value
    nest_held,      \* the indices of the pool locks of that store now held
    nest_invoked,   \* history: key -> number of times rec ran for it
    nest_ncalls,    \* number of calls made from outside so far
    \* ---- construction of process stores (_cache.py)
    st_host,        \* host[STORE_NAME]: the dict of stores (0: not there)
    st_store,       \* dict of stores -> name -> its (cache, locks) tuple (0: not there)
    st_entries,     \* (cache, locks) tuple -> the keys its cache holds
    st_lock,        \* the thread holding ProcessCache.STORE_LOCK (0: free)
    st_th,          \* thread -> its activation of ProcessCache.__init__ and its instance
    st_fresh,       \* number of dicts of stores and tuples created so far
    st_written,     \* history: the <<name, key>> written through some instance
    st_ncons,       \* number of constructions started so far
    \* ---- memoization keys of bound arguments (cached.py)
    hc_store,       \* the thread's stores: the <<name, key, object>> entries they hold
    hc_log          \* history: the memoized calls made so far, in order

callVars == <<made, cache_store, pool_held, thread_store, frame, ncalls, invoked>>
propVars == <<cls, attrs, n_locks, prop_cache, locks, held, stack, ret, fresh, nops, hist>>
pickVars == <<pk_x, pk_mem, pk_locks, pk_files, pk_ret, pk_calls, pk_fresh, pk_nops>>
nestVars == <<nest_stack, nest_cache, nest_held, nest_invoked, nest_ncalls>>
storeVars == <<st_host, st_store, st_entries, st_lock, st_th, st_fresh, st_written, st_ncons>>
hashVars == <<hc_store, hc_log>>
exceptCall == <<propVars, pickVars, nestVars, storeVars, hashVars>>
exceptProp == <<callVars, pickVars, nestVars, storeVars, hashVars>>
exceptPick == <<callVars, propVars, nestVars, storeVars, hashVars>>
exceptNest == <<callVars, propVars, pickVars, storeVars, hashVars>>
exceptStore == <<callVars, propVars, pickVars, nestVars, hashVars>>
exceptHash == <<callVars, propVars, pickVars, nestVars, storeVars>>
vars == <<made, cache_store, pool_held, thread_store, frame, ncalls, invoked,
          cls, attrs, n_locks, prop_cache, locks, held, stack, ret, fresh, nops, hist,
          pk_x, pk_mem, pk_locks, pk_files, pk_ret, pk_calls, pk_fresh, pk_nops,
          nest_stack, nest_cache, nest_held, nest_invoked, nest_ncalls,
          st_host, st_store, st_entries, st_lock, st_th, st_fresh, st_written, st_ncons,
          hc_store, hc_log>>

Threads == 1 .. NThreads

\* ------------------------------------------------------------------ values
\* A Python value of the model: an int ([t |-> "int", v |-> <<n>>]) or a
\* tuple or list of ints ([t |-> "tuple", v |-> <<n1, n2>>]).
IntVal(n) == [t |-> "int", v |-> <<n>>]

TypeCode(t) ==
    CASE t = "int" -> 1
      [] t = "tuple" -> 2
      [] t = "list" -> 3
      [] OTHER -> 4

\* CPython's hash of a small int: the int itself, except hash(-1) = -2.
PyHashInt_injective(n) == n

PyHashInt(n) == IF n = -1 THEN -2 ELSE n

\* hash((obj, typename)) of a scalar int: decided by hash(obj) and the type name.
HashScalar(n, t) == <<PyHashInt(n), TypeCode(t)>>

RECURSIVE HashElems(_)
HashElems(s) ==
    IF s = <<>> THEN <<>>
    ELSE HashScalar(Head(s), "int") \o HashElems(Tail(s))

\* _hash_content of a value: a scalar is hashed with its type name; an iterable
\* becomes the ordered tuple of its elements' hashes, hashed with its type name.
\* The hash of a tuple is a function of its length and its elements' hashes,
\* modelled as that sequence itself.
HashValue(val) ==
    IF val.t = "int" THEN HashScalar(val.v[1], "int")
    ELSE HashElems(val.v) \o <<Len(val.v), TypeCode(val.t)>>

\* _hash_content of a mapping given as a sequence of <<name, value>> items: the
\* frozenset of (key, _hash_content(value)) pairs, hashed with the name 'dict'.
HashContent(items) ==
    { <<items[i][1], HashValue(items[i][2])>> : i \in 1 .. Len(items) }

RECURSIVE SumSeq(_)
SumSeq(s) == IF s = <<>> THEN 0 ELSE Head(s) + SumSeq(Tail(s))

RECURSIVE SumSet(_)
SumSet(S) ==
    IF S = {} THEN 0
    ELSE LET e == CHOOSE x \in S : TRUE
         IN  SumSeq(e[2]) + SumSet(S \ {e})

\* hash(key) of an integer key, as far as the lock index needs it
KeyInt(key) == SumSet(key)

\* -------------------------------------------------------- memoized calls
Callables == {"f", "g"}

\* a callable whose call raises for some arguments
FailingCallables == {"boom"}

\* callfunc(*args, **kwargs) raises: boom(x) raises for every x but 0
Raises(c, a) == c \in FailingCallables /\ a # 0

\* callable_obj.__name__: f and g are two callables that carry the same name
NameOf(c) == IF c \in FailingCallables THEN c ELSE "func"

CacheNames == {NameOf(c) : c \in Callables \cup FailingCallables}

ArgInts == -2 .. MaxArg

Scopes == {"thread", "process"}

\* a scope argument that is neither of them
InvalidScopes == {"invalid"}

\* match scope: case 'thread', case 'process'; anything else raises
ScopeKnown_any(scope) == TRUE

ScopeKnown(scope) == scope \in Scopes

\* inspect.signature(callfunc).bind(*args): func(x) binds its argument to x
BoundArgs(a) == << <<"x", IntVal(a)>> >>

NoKey == {}

NoValue == [fn |-> "", arg |-> 0, by |-> 0, scope |-> "", n |-> 0]

\* a thread not in a call; a thread at pc "done" still shows its last call and
\* what that call returned
IdleFrame ==
    [pc |-> "idle", fn |-> "", arg |-> 0, scope |-> "", name |-> "",
     key |-> NoKey, result |-> NoValue]

\* the store a call works on: ThreadCache is partitioned by the calling thread
ThreadStoreOwner_shared(t) == 1

ThreadStoreOwner(t) == t

StoreId(t, scope, name) ==
    IF scope = "thread" THEN <<"thread", ThreadStoreOwner(t), name>>
    ELSE <<"process", 0, name>>

StoreIds ==
    {<<"thread", t, n>> : t \in Threads, n \in CacheNames}
        \cup {<<"process", 0, n>> : n \in CacheNames}

Keys == {HashContent(BoundArgs(a)) : a \in ArgInts}

\* a cache (dict) over the keys of the model; NoValue marks an absent key
EmptyCache == [k \in Keys |-> NoValue]

\* key in cache
Has(cache, key) == cache[key] # NoValue

\* the mapping behind Cache.cache for thread t
CacheOf(t, scope, name) ==
    IF scope = "thread" THEN thread_store[ThreadStoreOwner(t)][name]
    ELSE cache_store[name]

\* ProcessCache.lock: the index of the pool lock guarding key
LockIndex(key) == KeyInt(key) % CallNLocks

InitCall ==
    /\ made = {}
    /\ cache_store = [n \in CacheNames |-> EmptyCache]
    /\ pool_held = {}
    /\ thread_store = [t \in Threads |-> [n \in CacheNames |-> EmptyCache]]
    /\ frame = [t \in Threads |-> IdleFrame]
    /\ ncalls = 0
    /\ invoked = [s \in StoreIds |-> [k \in Keys |-> 0]]

\* cached_call(callable_obj, a, scope=scope): _cached_call_impl selects the cache
\* class, binds the arguments, hashes them, constructs the cache (the store is
\* created on first use) and tests: if key not in cache; with a scope that
\* matches no case it raises ValueError before any of that (pc "raised")
CallStart(t, c, a, scope) ==
    LET key == HashContent(BoundArgs(a)) IN
    /\ frame[t].pc \in {"idle", "done", "raised", "failed"}
    /\ ncalls < MaxCalls
    /\ ncalls' = ncalls + 1
    /\ IF ScopeKnown(scope)
       THEN /\ frame' = [frame EXCEPT ![t] =
                  [pc |-> IF Has(CacheOf(t, scope, NameOf(c)), key) THEN "return" ELSE "lock",
                   fn |-> c, arg |-> a, scope |-> scope,
                   name |-> NameOf(c), key |-> key, result |-> NoValue]]
            /\ made' = made \cup {StoreId(t, scope, NameOf(c))}
       ELSE /\ frame' = [frame EXCEPT ![t] =
                  [IdleFrame EXCEPT !.pc = "raised", !.scope = scope]]
            /\ made' = made
    /\ UNCHANGED <<cache_store, pool_held, thread_store, invoked, exceptCall>>

\* with cache.lock(key): Cache.lock yields at once, ProcessCache.lock takes the
\* pool lock of the key (a threading.Lock: it blocks while anyone holds it)
CallAcquire(t) ==
    LET f == frame[t]
        lk == <<f.name, LockIndex(f.key)>>
    IN
    /\ f.pc = "lock"
    /\ IF f.scope = "process"
       THEN /\ lk \notin pool_held
            /\ pool_held' = pool_held \cup {lk}
       ELSE pool_held' = pool_held
    /\ frame' = [frame EXCEPT ![t].pc = "check2"]
    /\ UNCHANGED <<made, cache_store, thread_store, ncalls, invoked, exceptCall>>

\* the second test, under the lock: if key not in cache
NeedsCall_unchecked(cache, key) == TRUE

NeedsCall(cache, key) == ~Has(cache, key)

CallCheck2(t) ==
    LET f == frame[t] IN
    /\ f.pc = "check2"
    /\ frame' = [frame EXCEPT ![t].pc =
            IF NeedsCall(CacheOf(t, f.scope, f.name), f.key) THEN "call" ELSE "unlock"]
    /\ UNCHANGED <<made, cache_store, pool_held, thread_store, ncalls, invoked, exceptCall>>

\* an exception raised inside the with block leaves it through the context
\* manager's exit, which releases the lock
AfterRaise_unreleased == "failed"

AfterRaise == "unlock_raise"

\* cache[key] = callfunc(*args, **kwargs): the callable runs, returns a new
\* object, and the object is stored under the key; when the callable raises,
\* the assignment does not happen
CallInvoke(t) ==
    LET f == frame[t]
        sid == StoreId(t, f.scope, f.name)
        n == invoked[sid][f.key] + 1
        obj == [fn |-> f.fn, arg |-> f.arg, by |-> t, scope |-> f.scope, n |-> n]
    IN
    /\ f.pc = "call"
    /\ invoked' = [invoked EXCEPT ![sid][f.key] = n]
    /\ IF Raises(f.fn, f.arg)
       THEN /\ frame' = [frame EXCEPT ![t].pc = AfterRaise]
            /\ UNCHANGED <<cache_store, thread_store>>
       ELSE /\ IF f.scope = "thread"
               THEN /\ thread_store' =
                          [thread_store EXCEPT ![ThreadStoreOwner(t)][f.name][f.key] = obj]
                    /\ UNCHANGED cache_store
               ELSE /\ cache_store' = [cache_store EXCEPT ![f.name][f.key] = obj]
                    /\ UNCHANGED thread_store
            /\ frame' = [frame EXCEPT ![t].pc = "unlock"]
    /\ UNCHANGED <<made, pool_held, ncalls, exceptCall>>

\* leaving the with block, normally or by an exception, releases the pool
\* lock; n_locks is not 0, so the finally clause removes nothing; an exception
\* then leaves _cached_call_impl (pc "failed")
CallRelease(t) ==
    LET f == frame[t] IN
    /\ f.pc \in {"unlock", "unlock_raise"}
    /\ pool_held' = IF f.scope = "process"
                    THEN pool_held \ {<<f.name, LockIndex(f.key)>>}
                    ELSE pool_held
    /\ frame' = [frame EXCEPT ![t].pc = IF f.pc = "unlock" THEN "return" ELSE "failed"]
    /\ UNCHANGED <<made, cache_store, thread_store, ncalls, invoked, exceptCall>>

\* return cache[key]
CallReturn(t) ==
    LET f == frame[t] IN
    /\ f.pc = "return"
    /\ frame' = [frame EXCEPT ![t].pc = "done",
                              ![t].result = CacheOf(t, f.scope, f.name)[f.key]]
    /\ UNCHANGED <<made, cache_store, pool_held, thread_store, ncalls, invoked, exceptCall>>

NextCall ==
    \E t \in Threads :
        \/ \E c \in Callables, a \in ArgInts, scope \in Scopes \cup InvalidScopes :
               CallStart(t, c, a, scope)
        \/ CallAcquire(t)
        \/ CallCheck2(t)
        \/ CallInvoke(t)
        \/ CallRelease(t)
        \/ CallReturn(t)

\* ------------------------------------------------ claims on memoized calls
Done(t) == frame[t].pc = "done"

SidOf(t) == StoreId(t, frame[t].scope, frame[t].name)

\* C1: however the threads interleave, the computation behind one key of a
\* process scoped store runs at most once, it has run exactly once when a
\* caller returns, and every caller returns the object stored under the key.
C1_ComputedOnce ==
    /\ \A n \in CacheNames, k \in Keys : invoked[<<"process", 0, n>>][k] <= 1
    /\ \A t \in Threads :
          (Done(t) /\ frame[t].scope = "process") =>
              /\ invoked[SidOf(t)][frame[t].key] = 1
              /\ frame[t].result # NoValue
              /\ frame[t].result = cache_store[frame[t].name][frame[t].key]

\* two threads have returned from a process scoped call on the same key
C1_Witness ==
    \E t1, t2 \in Threads :
        /\ t1 # t2
        /\ Done(t1) /\ Done(t2)
        /\ frame[t1].scope = "process" /\ frame[t2].scope = "process"
        /\ frame[t1].key = frame[t2].key
        /\ frame[t1].result = frame[t2].result

\* C4: a thread scoped call returns an object computed by the calling thread,
\* and a thread's private store holds only such objects; process scoped calls of
\* any threads on the same store name and key return the same object.
C4_ScopeSharing ==
    /\ \A t \in Threads :
          (Done(t) /\ frame[t].scope = "thread") =>
              /\ frame[t].result.by = t
              /\ frame[t].result.scope = "thread"
    /\ \A t \in Threads, n \in CacheNames, k \in Keys :
          Has(thread_store[t][n], k) => thread_store[t][n][k].by = t
    /\ \A t1, t2 \in Threads :
          (/\ Done(t1) /\ Done(t2)
           /\ frame[t1].scope = "process" /\ frame[t2].scope = "process"
           /\ frame[t1].name = frame[t2].name /\ frame[t1].key = frame[t2].key)
              => frame[t1].result = frame[t2].result

\* two threads made the same thread scoped call and hold different objects
C4_Witness ==
    \E t1, t2 \in Threads :
        /\ t1 # t2
        /\ Done(t1) /\ Done(t2)
        /\ frame[t1].scope = "thread" /\ frame[t2].scope = "thread"
        /\ frame[t1].fn = frame[t2].fn /\ frame[t1].arg = frame[t2].arg
        /\ frame[t1].result # frame[t2].result

\* C5: two calls on the same store return the identical object, computed once,
\* when their arguments hash alike, and different objects when their arguments
\* differ.
C5_ContentKeyed ==
    \A t1, t2 \in Threads :
        (Done(t1) /\ Done(t2) /\ SidOf(t1) = SidOf(t2)) =>
            /\ (frame[t1].key = frame[t2].key) =>
                  /\ frame[t1].result = frame[t2].result
                  /\ invoked[SidOf(t1)][frame[t1].key] = 1
            /\ (frame[t1].arg # frame[t2].arg) =>
                  frame[t1].result # frame[t2].result

\* C6: what cached_call(callable_obj, a) returns was returned by callable_obj
\* itself, called with a.
C6_ReturnsOwnResult ==
    \A t \in Threads :
        Done(t) => (frame[t].result.fn = frame[t].fn /\ frame[t].result.arg = frame[t].arg)

\* C16: a call with an unrecognized scope raises ValueError at once: it never
\* gets to a lookup, a lock or the computation, and the step that raises
\* creates no store and changes no store, no lock and no count of invocations.
C16_InvalidScopeRaises ==
    /\ [](\A t \in Threads :
            (frame[t].pc # "idle" /\ frame[t].scope \notin Scopes) =>
                /\ frame[t].pc = "raised"
                /\ frame[t].key = NoKey /\ frame[t].result = NoValue)
    /\ [][\A t \in Threads :
            (frame'[t].pc = "raised" /\ frame'[t] # frame[t]) =>
                /\ made' = made
                /\ cache_store' = cache_store /\ thread_store' = thread_store
                /\ pool_held' = pool_held
                /\ invoked' = invoked]_vars

\* a call with an unrecognized scope has raised while another thread holds a
\* pool lock of an existing store
C16_Witness ==
    \E t1, t2 \in Threads :
        /\ frame[t1].pc = "raised" /\ frame[t1].scope \in InvalidScopes
        /\ frame[t2].pc = "call" /\ frame[t2].scope = "process"
        /\ pool_held # {} /\ made # {}

\* ------------------------------------------------------ cached properties
PTh == 1 .. PThreads

\* a value held by an attribute or a property: its content v and, for an object
\* made by random.random(), the identity n of the object (0 for a plain int)
PV(v, n) == [v |-> v, n |-> n]

None == PV(0, -1)

\* an attribute the instance does not have
Absent == PV(0, -2)

\* the property names p0, p1, ... of the class Crowded
PName(i) == "p" \o ToString(i)

ChainProps == {PName(i) : i \in 0 .. ChainLen - 1}

PIndex(p) == CHOOSE i \in 0 .. ChainLen - 1 : PName(i) = p

\* the cached properties a class declares
Props(c) ==
    CASE c = "HasCachedProperties" -> {"no_dependencies", "depends_on_x"}
      [] c = "Crowded" -> ChainProps
      [] c = "RecursiveDependencies" -> {"x", "y"}
      [] c = "HasLazyProperty" -> {"prop"}
      [] c = "HasFailingProperty" -> {"inverse"}
      [] OTHER -> {}

\* the plain attributes of an instance
Attrs(c) ==
    CASE c = "HasCachedProperties" -> {"x"}
      [] c = "HasLazyProperty" -> {"x", "y"}
      [] c = "HasFailingProperty" -> {"x"}
      [] OTHER -> {}

\* cached_property.dependencies, in the order dependency_values reads them
Deps(c, p) ==
    CASE c = "HasCachedProperties" -> IF p = "depends_on_x" THEN <<"x">> ELSE << >>
      [] c = "Crowded" -> IF PIndex(p) = 0 THEN << >> ELSE <<PName(PIndex(p) - 1)>>
      [] c = "RecursiveDependencies" -> IF p = "x" THEN <<"y">> ELSE <<"x">>
      [] c = "HasLazyProperty" -> <<"x", "y">>
      [] c = "HasFailingProperty" -> <<"x">>
      [] OTHER -> << >>

\* the members the property's function reads from the host, in order; p0 of
\* Crowded reads a member that does not exist and gets the default -1
FnReads(c, p) ==
    CASE c = "HasCachedProperties" -> IF p = "depends_on_x" THEN <<"x">> ELSE << >>
      [] c = "Crowded" -> IF PIndex(p) = 0 THEN << >> ELSE <<PName(PIndex(p) - 1)>>
      [] c = "RecursiveDependencies" -> IF p = "x" THEN <<"y">> ELSE <<"x">>
      [] c = "HasLazyProperty" -> <<"x", "y">>
      [] c = "HasFailingProperty" -> <<"x">>
      [] OTHER -> << >>

\* what the property's function returns, given what it read; id names the new
\* object where the function builds one around random.random()
FnResult(c, p, rd, id) ==
    CASE c = "HasCachedProperties" ->
             IF p = "depends_on_x" THEN PV(rd[1].v, id) ELSE PV(0, id)
      [] c = "Crowded" -> IF rd = << >> THEN PV(-1 + 1, 0) ELSE PV(rd[1].v + 1, 0)
      [] c = "HasLazyProperty" -> PV(rd[1].v + rd[2].v, id)
      [] c = "HasFailingProperty" -> PV(rd[1].v, id)
      [] OTHER -> PV(rd[1].v + 1, 0)

\* the property's function raises, given what it read: the function of
\* 'inverse' divides by self.x - 1
FnRaises(c, p, rd) == c = "HasFailingProperty" /\ rd[1].v = 1

\* sys.getrecursionlimit(), in activations of the model: deep enough for the
\* chain of Crowded
RecursionLimit == ChainLen + 2

\* a property store with a fixed lock pool smaller than the chain
OwnedCacheNLocks_pool == ChainLen - 1

\* _OwnedCache.__init__: ProcessCache('property_cache', owner.__dict__), n_locks
\* left at its default
OwnedCacheNLocks == 0

\* hash(key) of a property name (a str), for a pooled store
StrHash(c, p) == IF c = "Crowded" THEN PIndex(p) ELSE IF p \in {"x", "no_dependencies"} THEN 0 ELSE 1

\* __get__ reads the dependency values first and takes the lock after that
GetEntry_locked == "lock"

GetEntry == "deps"

EmptySlot == [full |-> FALSE, snap |-> << >>, val |-> None]

NoFrame ==
    [kind |-> "", prop |-> "", pc |-> "", i |-> 0, deps |-> << >>, rd |-> << >>,
     lk |-> 0, val |-> None, snap |-> << >>, ok |-> FALSE, err |-> "", ran |-> FALSE]

NewFrame(kind, p, pc, val) ==
    [NoFrame EXCEPT !.kind = kind, !.prop = p, !.pc = pc, !.i = 1, !.val = val]

NoHist == [w |-> None, dflag |-> FALSE, d |-> None, ch |-> FALSE, calls |-> 0]

NoRet ==
    [op |-> "", prop |-> "", done |-> FALSE, pre |-> "", old |-> None,
     hw |-> None, hd |-> FALSE, hdv |-> None, hch |-> FALSE, hcalls |-> 0,
     val |-> None, ok |-> FALSE, err |-> "", ran |-> FALSE]

\* the values the attributes of a new host can have: the x given to
\* HasCachedProperties(x); for HasLazyProperty, x None or assigned and y not
\* there or assigned
AttrInit(c) ==
    IF c = "HasLazyProperty"
    THEN {[a \in Attrs(c) |-> IF a = "x" THEN vx ELSE vy] :
              vx \in {None} \cup {PV(k, 0) : k \in 1 .. MaxX},
              vy \in {Absent} \cup {PV(k, 0) : k \in 1 .. MaxX}}
    ELSE [Attrs(c) -> {PV(k, 0) : k \in 1 .. MaxX}]

InitProp(c) ==
    /\ cls = c
    /\ attrs \in AttrInit(c)
    /\ n_locks = OwnedCacheNLocks
    /\ prop_cache = [p \in Props(c) |-> EmptySlot]
    /\ locks = [p \in Props(c) |-> 0]
    /\ held = {}
    /\ stack = [t \in PTh |-> << >>]
    /\ ret = [t \in PTh |-> NoRet]
    /\ fresh = 0
    /\ nops = 0
    /\ hist = [p \in Props(c) |-> NoHist]

Top(t) == stack[t][Len(stack[t])]

Front(st) == SubSeq(st, 1, Len(st) - 1)

\* the current value of a member read through getattr, where no property's
\* function has to run for it
Member(name) ==
    IF name \in Props(cls) THEN prop_cache[name].val ELSE attrs[name]

\* cached_property.dependency_values, read off the state
CurSnap(p) == [i \in 1 .. Len(Deps(cls, p)) |-> Member(Deps(cls, p)[i])]

\* the state of a slot: empty, valid or stale
SlotState(p) ==
    IF ~prop_cache[p].full THEN "empty"
    ELSE IF prop_cache[p].snap = CurSnap(p) THEN "valid" ELSE "stale"

\* an activation holds its key's lock while a nested read runs below it
HoldsBelow(f) ==
    \/ f.kind = "get" /\ f.pc = "call"
    \/ f.kind \in {"set", "valid"} /\ f.pc = "deps"

\* an exception leaves the activations that hold no lock at once and stops at
\* the first one that has a lock to release
RECURSIVE Unwind(_, _)
Unwind(st, e) ==
    IF st = << >> THEN << >>
    ELSE LET f == st[Len(st)] IN
         IF HoldsBelow(f)
         THEN Append(Front(st), [f EXCEPT !.pc = "release", !.err = e])
         ELSE Unwind(Front(st), e)

\* a nested read returns v to the activation that asked for it
Deliver(st, v) ==
    LET f == st[Len(st)] IN
    IF f.pc = "deps"
    THEN Append(Front(st), [f EXCEPT !.deps = Append(@, v), !.i = @ + 1])
    ELSE Append(Front(st), [f EXCEPT !.rd = Append(@, v), !.i = @ + 1])

\* thread t's stack becomes st; when it is empty the operation of activation f
\* is over, with error e or with f's outcome
Resume(t, st, f, e) ==
    /\ stack' = [stack EXCEPT ![t] = st]
    /\ ret' = IF st = << >>
              THEN [ret EXCEPT ![t].done = TRUE, ![t].val = f.val, ![t].ok = f.ok,
                               ![t].err = e, ![t].ran = f.ran]
              ELSE ret

\* getattr(owner, name) in activation f of thread t: a property is read through
\* its descriptor (a new activation, if the stack allows one), an attribute at once
ReadMember(t, f, name) ==
    IF name \in Props(cls)
    THEN IF Len(stack[t]) >= RecursionLimit
         THEN Resume(t, Unwind(stack[t], "RecursionError"), f, "RecursionError")
         ELSE /\ stack' = [stack EXCEPT ![t] = Append(@, NewFrame("get", name, GetEntry, None))]
              /\ ret' = ret
    ELSE /\ stack' = [stack EXCEPT ![t] = Deliver(@, attrs[name])]
         /\ ret' = ret

Begin(t, kind, p) ==
    [NoRet EXCEPT !.op = kind, !.prop = p, !.pre = SlotState(p),
                  !.old = prop_cache[p].val, !.hw = hist[p].w, !.hd = hist[p].dflag,
                  !.hdv = hist[p].d, !.hch = hist[p].ch, !.hcalls = hist[p].calls]

\* obj.p: cached_property.__get__
StartGet(t, p) ==
    /\ stack[t] = << >>
    /\ nops < MaxOps
    /\ nops' = nops + 1
    /\ stack' = [stack EXCEPT ![t] = <<NewFrame("get", p, GetEntry, None)>>]
    /\ ret' = [ret EXCEPT ![t] = Begin(t, "get", p)]
    /\ UNCHANGED <<cls, attrs, n_locks, prop_cache, locks, held, fresh, hist, exceptProp>>

\* obj.p = value, value a new object: cached_property.__set__
StartSet(t, p) ==
    /\ stack[t] = << >>
    /\ nops < MaxOps
    /\ nops' = nops + 1
    /\ fresh' = fresh + 1
    /\ stack' = [stack EXCEPT ![t] = <<NewFrame("set", p, "lock", PV(0, fresh + 1))>>]
    /\ ret' = [ret EXCEPT ![t] = Begin(t, "set", p)]
    /\ UNCHANGED <<cls, attrs, n_locks, prop_cache, locks, held, hist, exceptProp>>

\* del obj.p: cached_property.__delete__
StartDel(t, p) ==
    /\ stack[t] = << >>
    /\ nops < MaxOps
    /\ nops' = nops + 1
    /\ stack' = [stack EXCEPT ![t] = <<NewFrame("del", p, "full", None)>>]
    /\ ret' = [ret EXCEPT ![t] = Begin(t, "del", p)]
    /\ UNCHANGED <<cls, attrs, n_locks, prop_cache, locks, held, fresh, hist, exceptProp>>

\* type(obj).p.is_cache_valid(obj)
StartValid(t, p) ==
    /\ stack[t] = << >>
    /\ nops < MaxOps
    /\ nops' = nops + 1
    /\ stack' = [stack EXCEPT ![t] = <<NewFrame("valid", p, "full", None)>>]
    /\ ret' = [ret EXCEPT ![t] = Begin(t, "valid", p)]
    /\ UNCHANGED <<cls, attrs, n_locks, prop_cache, locks, held, fresh, hist, exceptProp>>

\* obj.a = v, a a plain attribute whose value changes
SetAttr(t, a, v) ==
    /\ stack[t] = << >>
    /\ nops < MaxOps
    /\ nops' = nops + 1
    /\ attrs[a] # PV(v, 0)
    /\ attrs' = [attrs EXCEPT ![a] = PV(v, 0)]
    /\ hist' = [p \in Props(cls) |->
                   IF \E i \in 1 .. Len(Deps(cls, p)) : Deps(cls, p)[i] = a
                   THEN [hist[p] EXCEPT !.w = None, !.ch = TRUE]
                   ELSE hist[p]]
    /\ ret' = [ret EXCEPT ![t] = [NoRet EXCEPT !.op = "setattr", !.prop = a, !.done = TRUE]]
    /\ UNCHANGED <<cls, n_locks, prop_cache, locks, held, stack, fresh, exceptProp>>

\* __delete__ and is_cache_valid first test cache.full() without the lock
Precheck(t) ==
    /\ stack[t] # << >>
    /\ Top(t).pc = "full"
    /\ IF prop_cache[Top(t).prop].full
       THEN /\ stack' = [stack EXCEPT ![t] = <<[Top(t) EXCEPT !.pc = "lock"]>>]
            /\ ret' = ret
       ELSE Resume(t, << >>, Top(t), "")
    /\ UNCHANGED <<cls, attrs, n_locks, prop_cache, locks, held, fresh, nops, hist, exceptProp>>

\* dependency_values: the next dependency is read; after the last one __get__
\* goes on to the lock, __set__ to the insert, is_cache_valid to the comparison
DepStep(t) ==
    /\ stack[t] # << >>
    /\ Top(t).pc = "deps"
    /\ LET f == Top(t)
           ds == Deps(cls, f.prop)
       IN IF f.i <= Len(ds)
          THEN ReadMember(t, f, ds[f.i])
          ELSE /\ stack' = [stack EXCEPT ![t] = Append(Front(@),
                      [f EXCEPT !.pc = CASE f.kind = "get" -> "lock"
                                        [] f.kind = "set" -> "insert"
                                        [] OTHER -> "compare"])]
               /\ ret' = ret
    /\ UNCHANGED <<cls, attrs, n_locks, prop_cache, locks, held, fresh, nops, hist, exceptProp>>

\* the lock objects a thread still refers to
LocksInUse ==
    UNION {{stack[t][i].lk : i \in {j \in 1 .. Len(stack[t]) :
                stack[t][j].pc \notin {"full", "lock", "cleanup"}
                /\ ~(stack[t][j].kind = "get" /\ stack[t][j].pc = "deps")}} : t \in PTh}

\* a threading.Lock that did not exist before
NewLock ==
    CHOOSE n \in 1 .. (PThreads * RecursionLimit + ChainLen + 2) :
        /\ n \notin LocksInUse
        /\ \A p \in Props(cls) : locks[p] # n
        /\ \A m \in 1 .. (n - 1) : m \in LocksInUse \/ \E p \in Props(cls) : locks[p] = m

\* ProcessCache.lock: self.locks[hash(key) % self.n_locks if self.n_locks else key];
\* the lock map of an unpooled store is a defaultdict, which makes the lock of
\* a key that has none
FetchLock(t) ==
    /\ stack[t] # << >>
    /\ Top(t).pc = "lock"
    /\ LET f == Top(t)
           lk == IF n_locks # 0 THEN -(1 + (StrHash(cls, f.prop) % n_locks))
                 ELSE IF locks[f.prop] # 0 THEN locks[f.prop] ELSE NewLock
       IN /\ locks' = IF n_locks # 0 THEN locks ELSE [locks EXCEPT ![f.prop] = lk]
          /\ stack' = [stack EXCEPT ![t] = Append(Front(@),
                          [f EXCEPT !.pc = "acquire", !.lk = lk])]
    /\ UNCHANGED <<cls, attrs, n_locks, prop_cache, held, ret, fresh, nops, hist, exceptProp>>

\* with <lock>: entering a threading.Lock blocks while anyone holds it
Acquire(t) ==
    /\ stack[t] # << >>
    /\ Top(t).pc = "acquire"
    /\ Top(t).lk \notin held
    /\ held' = held \cup {Top(t).lk}
    /\ stack' = [stack EXCEPT ![t] = Append(Front(@),
            [Top(t) EXCEPT !.pc = CASE Top(t).kind = "get" -> "check"
                                    [] Top(t).kind = "set" -> "deps"
                                    [] Top(t).kind = "del" -> "clear"
                                    [] OTHER -> "recheck"])]
    /\ UNCHANGED <<cls, attrs, n_locks, prop_cache, locks, ret, fresh, nops, hist, exceptProp>>

\* __get__: if dep_values != cached_dep_values, the stored snapshot being None
\* for an empty slot
MustCompute_always(slot, deps) == TRUE

MustCompute_never_stale(slot, deps) == ~slot.full

MustCompute(slot, deps) == ~slot.full \/ slot.snap # deps

\* __get__ under the lock: the stored pair is retrieved and compared
Check(t) ==
    /\ stack[t] # << >>
    /\ Top(t).kind = "get" /\ Top(t).pc = "check"
    /\ LET f == Top(t)
           slot == prop_cache[f.prop]
       IN IF MustCompute(slot, f.deps)
          THEN /\ stack' = [stack EXCEPT ![t] = Append(Front(@),
                      [f EXCEPT !.pc = "call", !.i = 1, !.ran = TRUE])]
               /\ hist' = hist
          ELSE /\ stack' = [stack EXCEPT ![t] = Append(Front(@),
                      [f EXCEPT !.pc = "release", !.val = slot.val])]
               /\ hist' = [hist EXCEPT ![f.prop].dflag = FALSE, ![f.prop].ch = FALSE]
    /\ UNCHANGED <<cls, attrs, n_locks, prop_cache, locks, held, ret, fresh, nops, exceptProp>>

\* result = self.function(owner); cache.insert((dep_values, result)): the
\* function reads its members one by one, returns, and the pair is stored; when
\* the function raises, the exception leaves the with block and nothing is stored
CallFn(t) ==
    /\ stack[t] # << >>
    /\ Top(t).kind = "get" /\ Top(t).pc = "call"
    /\ LET f == Top(t)
           rs == FnReads(cls, f.prop)
           res == FnResult(cls, f.prop, f.rd, fresh + 1)
       IN IF f.i <= Len(rs)
          THEN /\ ReadMember(t, f, rs[f.i])
               /\ UNCHANGED <<prop_cache, fresh, hist>>
          ELSE IF FnRaises(cls, f.prop, f.rd)
          THEN /\ stack' = [stack EXCEPT ![t] = Append(Front(@),
                      [f EXCEPT !.pc = "release", !.err = "ZeroDivisionError"])]
               /\ UNCHANGED <<prop_cache, fresh, hist, ret>>
          ELSE /\ fresh' = IF res.n = 0 THEN fresh ELSE fresh + 1
               /\ prop_cache' = [prop_cache EXCEPT ![f.prop] =
                      [full |-> TRUE, snap |-> f.deps, val |-> res]]
               /\ hist' = [hist EXCEPT ![f.prop].dflag = FALSE, ![f.prop].ch = FALSE,
                                       ![f.prop].calls = @ + 1]
               /\ stack' = [stack EXCEPT ![t] = Append(Front(@),
                      [f EXCEPT !.pc = "release", !.val = res])]
               /\ ret' = ret
    /\ UNCHANGED <<cls, attrs, n_locks, locks, held, nops, exceptProp>>

\* __set__: cache.insert((self.dependency_values(owner), value))
Insert(t) ==
    /\ stack[t] # << >>
    /\ Top(t).pc = "insert"
    /\ LET f == Top(t) IN
       /\ prop_cache' = [prop_cache EXCEPT ![f.prop] =
              [full |-> TRUE, snap |-> f.deps, val |-> f.val]]
       /\ hist' = [hist EXCEPT ![f.prop] =
              [w |-> f.val, dflag |-> FALSE, d |-> None, ch |-> FALSE, calls |-> @.calls]]
       /\ stack' = [stack EXCEPT ![t] = Append(Front(@), [f EXCEPT !.pc = "release"])]
    /\ UNCHANGED <<cls, attrs, n_locks, locks, held, ret, fresh, nops, exceptProp>>

\* _OwnedCache.clear: if self.key in self.cache: del self.cache[self.key]
ClearedSlot_kept(slot) == slot

ClearedSlot(slot) == EmptySlot

\* __delete__ under the lock: cache.clear()
Clear(t) ==
    /\ stack[t] # << >>
    /\ Top(t).pc = "clear"
    /\ LET f == Top(t) IN
       /\ prop_cache' = [prop_cache EXCEPT ![f.prop] = ClearedSlot(@)]
       /\ hist' = [hist EXCEPT ![f.prop] =
              [w |-> None, dflag |-> TRUE,
               d |-> IF prop_cache[f.prop].full THEN prop_cache[f.prop].val ELSE @.d,
               ch |-> @.ch, calls |-> @.calls]]
       /\ stack' = [stack EXCEPT ![t] = Append(Front(@), [f EXCEPT !.pc = "release"])]
    /\ UNCHANGED <<cls, attrs, n_locks, locks, held, ret, fresh, nops, exceptProp>>

\* is_cache_valid under the lock: if not cache.full(): return False; else the
\* stored snapshot is retrieved, then the dependencies are read
Recheck(t) ==
    /\ stack[t] # << >>
    /\ Top(t).pc = "recheck"
    /\ LET f == Top(t) IN
       stack' = [stack EXCEPT ![t] = Append(Front(@),
           IF prop_cache[f.prop].full
           THEN [f EXCEPT !.pc = "deps", !.i = 1, !.snap = prop_cache[f.prop].snap]
           ELSE [f EXCEPT !.pc = "release", !.ok = FALSE])]
    /\ UNCHANGED <<cls, attrs, n_locks, prop_cache, locks, held, ret, fresh, nops, hist, exceptProp>>

\* cache.retrieve()[0] == self.dependency_values(owner)
SnapshotMatches_any(snap, deps) == TRUE

SnapshotMatches(snap, deps) == snap = deps

\* is_cache_valid: return cache.retrieve()[0] == self.dependency_values(owner)
Compare(t) ==
    /\ stack[t] # << >>
    /\ Top(t).pc = "compare"
    /\ stack' = [stack EXCEPT ![t] = Append(Front(@),
           [Top(t) EXCEPT !.pc = "release", !.ok = SnapshotMatches(Top(t).snap, Top(t).deps)])]
    /\ UNCHANGED <<cls, attrs, n_locks, prop_cache, locks, held, ret, fresh, nops, hist, exceptProp>>

\* ProcessCache.lock: the with block is left and the lock released
Release(t) ==
    /\ stack[t] # << >>
    /\ Top(t).pc = "release"
    /\ held' = held \ {Top(t).lk}
    /\ stack' = [stack EXCEPT ![t] = Append(Front(@), [Top(t) EXCEPT !.pc = "cleanup"])]
    /\ UNCHANGED <<cls, attrs, n_locks, prop_cache, locks, ret, fresh, nops, hist, exceptProp>>

\* ProcessCache.lock, finally: the test that decides whether the key's lock is
\* removed from the map: if not self.n_locks and key not in self.cache
DropsLock_never(nl, present) == FALSE

DropsLock(nl, present) == nl = 0 /\ ~present

\* ProcessCache.lock, finally: if not self.n_locks and key not in self.cache:
\* del self.locks[key], a KeyError when the map has no such key; then the
\* activation returns to its caller or passes the exception on
Cleanup(t) ==
    /\ stack[t] # << >>
    /\ Top(t).pc = "cleanup"
    /\ LET f == Top(t)
           drop == DropsLock(n_locks, prop_cache[f.prop].full)
           e == IF drop /\ locks[f.prop] = 0 THEN "KeyError" ELSE f.err
           rest == Front(stack[t])
       IN /\ locks' = IF drop THEN [locks EXCEPT ![f.prop] = 0] ELSE locks
          /\ IF e # ""
             THEN Resume(t, Unwind(rest, e), f, e)
             ELSE IF rest = << >>
                  THEN Resume(t, << >>, f, "")
                  ELSE Resume(t, Deliver(rest, f.val), f, "")
    /\ UNCHANGED <<cls, attrs, n_locks, prop_cache, held, fresh, nops, hist, exceptProp>>

\* the memoized calls at rest
CallAtRest == InitCall

\* no ProcessCache under construction
\* no memoized call with several arguments made yet
HashAtRest ==
    /\ hc_store = {}
    /\ hc_log = << >>

StoreAtRest ==
    /\ st_host = 0
    /\ st_store = << >>
    /\ st_entries = << >>
    /\ st_lock = 0
    /\ st_th = << >>
    /\ st_fresh = 0
    /\ st_written = {}
    /\ st_ncons = 0

\* no memoized call that makes memoized calls
NestAtRest ==
    /\ nest_stack = << >>
    /\ nest_cache = << >>
    /\ nest_held = {}
    /\ nest_invoked = << >>
    /\ nest_ncalls = 0

\* no instance with a pickled property in use, no file written
PickAtRest ==
    /\ pk_x = << >>
    /\ pk_mem = << >>
    /\ pk_locks = << >>
    /\ pk_files = << >>
    /\ pk_ret = << >>
    /\ pk_calls = 0
    /\ pk_fresh = 0
    /\ pk_nops = 0

\* the property side at rest (no host in use)
PropAtRest ==
    /\ cls = "none"
    /\ attrs = << >>
    /\ n_locks = 0
    /\ prop_cache = << >>
    /\ locks = << >>
    /\ held = {}
    /\ stack = << >>
    /\ ret = << >>
    /\ fresh = 0
    /\ nops = 0
    /\ hist = << >>

InitC == InitCall /\ PropAtRest /\ PickAtRest /\ NestAtRest /\ StoreAtRest /\ HashAtRest

SpecCall == InitC /\ [][NextCall]_vars

\* every operation on the properties of a HasCachedProperties instance, by
\* thread t
HostStep(t) ==
    \/ \E p \in Props(cls) : StartGet(t, p)
    \/ \E p \in Props(cls) : StartSet(t, p)
    \/ \E p \in Props(cls) : StartDel(t, p)
    \/ \E p \in Props(cls) : StartValid(t, p)
    \/ \E a \in Attrs(cls), v \in 1 .. MaxX : SetAttr(t, a, v)
    \/ Precheck(t)
    \/ DepStep(t)
    \/ FetchLock(t)
    \/ Acquire(t)
    \/ Check(t)
    \/ CallFn(t)
    \/ Insert(t)
    \/ Clear(t)
    \/ Recheck(t)
    \/ Compare(t)
    \/ Release(t)
    \/ Cleanup(t)

\* one thread works on a HasCachedProperties instance, one operation after another
NextSeq == HostStep(1)

InitHost == InitProp("HasCachedProperties") /\ CallAtRest /\ PickAtRest /\ NestAtRest /\ StoreAtRest /\ HashAtRest

SpecSeq == InitHost /\ [][NextSeq]_vars

\* several threads work on the same HasCachedProperties instance
NextProp == \E t \in PTh : HostStep(t)

SpecProp == InitHost /\ [][NextProp]_vars

\* ------------------------------------------- claims on one host, one thread
\* the operation thread 1 has just completed
Did(op) == ret[1].done /\ ret[1].op = op

\* C3 (as amended): a read invokes the property's function exactly when the
\* slot is empty or its stored snapshot differs from the current dependency
\* snapshot, and otherwise returns the stored value and leaves the slot as it
\* is; is_cache_valid is true exactly when the slot is full and its snapshot
\* equals the current one.
C3_RecomputesIffSnapshotDiffers ==
    /\ Did("get") =>
          /\ ret[1].err = ""
          /\ ret[1].ran <=> (ret[1].pre # "valid")
          /\ hist[ret[1].prop].calls = ret[1].hcalls + (IF ret[1].ran THEN 1 ELSE 0)
          /\ ~ret[1].ran => ret[1].val = ret[1].old
          /\ prop_cache[ret[1].prop].full
          /\ prop_cache[ret[1].prop].val = ret[1].val
          /\ prop_cache[ret[1].prop].snap = CurSnap(ret[1].prop)
    /\ Did("valid") => (ret[1].ok <=> (ret[1].pre = "valid"))

\* a read after a dependency changed has recomputed the value
C3_Witness ==
    /\ Did("get")
    /\ ret[1].pre = "stale" /\ ret[1].hch
    /\ ret[1].ran /\ ret[1].val # ret[1].old

\* C3 (as stated): ... and is_cache_valid is false from the moment a dependency
\* changes until the next read or write.
C3_StaleUntilReadOrWrite ==
    /\ Did("get") => (ret[1].ran <=> (ret[1].pre # "valid"))
    /\ (Did("valid") /\ ret[1].hch) => ~ret[1].ok

\* C9: a write stores (current snapshot, provided value) without invoking the
\* property's function, and a read made while that write is in force (no
\* dependency changed, no delete since) returns the provided object without
\* invoking the function.
C9_WriteBypassesComputation ==
    /\ Did("set") =>
          /\ ret[1].err = ""
          /\ hist[ret[1].prop].calls = ret[1].hcalls
          /\ prop_cache[ret[1].prop] =
                [full |-> TRUE, snap |-> CurSnap(ret[1].prop), val |-> ret[1].val]
    /\ (Did("get") /\ ret[1].hw # None) =>
          /\ ret[1].val = ret[1].hw
          /\ hist[ret[1].prop].calls = ret[1].hcalls

\* a read has returned the object written before it, the slot having held a
\* computed value before the write
C9_Witness ==
    /\ Did("get")
    /\ ret[1].hw # None /\ ret[1].val = ret[1].hw
    /\ ret[1].hcalls > 0

\* C10: a delete leaves the slot empty, whatever it held, and raises nothing;
\* the read after it invokes the function, stores and returns a new object
\* that is not the one held before the delete; a delete of an empty slot
\* changes neither the store nor its locks.
C10_DeleteClears ==
    /\ Did("del") =>
          /\ ret[1].err = ""
          /\ ~prop_cache[ret[1].prop].full
    /\ (Did("get") /\ ret[1].hd) =>
          /\ ret[1].ran
          /\ hist[ret[1].prop].calls = ret[1].hcalls + 1
          /\ ret[1].val # ret[1].hdv
          /\ prop_cache[ret[1].prop].full /\ prop_cache[ret[1].prop].val = ret[1].val
    /\ (Did("del") /\ ret[1].pre = "empty") =>
          /\ prop_cache[ret[1].prop] = EmptySlot
          /\ locks[ret[1].prop] = 0
          /\ hist[ret[1].prop].calls = ret[1].hcalls

\* a stale slot was deleted and the next read computed a new object
C10_Witness ==
    /\ Did("get")
    /\ ret[1].hd /\ ret[1].hch
    /\ ret[1].ran /\ ret[1].val # ret[1].hdv

\* C11: is_cache_valid answers true exactly when the slot is full and its
\* snapshot equals the current dependency snapshot, and no step of it invokes
\* the property's function or changes any slot, whether the slot was empty,
\* valid or stale.
C11_ValidityCheckIsPure ==
    /\ [](Did("valid") =>
            /\ ret[1].err = ""
            /\ ret[1].ok <=> (prop_cache[ret[1].prop].full
                              /\ prop_cache[ret[1].prop].snap = CurSnap(ret[1].prop))
            /\ hist[ret[1].prop].calls = ret[1].hcalls)
    /\ [][(ret[1].op = "valid" /\ ~ret[1].done) =>
            /\ prop_cache' = prop_cache
            /\ \A p \in Props(cls) : hist'[p].calls = hist[p].calls]_vars

\* is_cache_valid has answered false on a stale slot, which still holds the
\* value it held
C11_Witness ==
    /\ Did("valid")
    /\ ret[1].pre = "stale" /\ ~ret[1].ok
    /\ prop_cache[ret[1].prop].full /\ prop_cache[ret[1].prop].val = ret[1].old

\* ---------------------------------------- claims on one host, many threads
\* thread t is inside the critical section of property p: it holds what it
\* took for p's lock
InSection(t, p) ==
    \E i \in 1 .. Len(stack[t]) :
        /\ stack[t][i].prop = p
        /\ \/ stack[t][i].pc \in {"check", "call", "insert", "clear", "recheck",
                                  "compare", "release"}
           \/ stack[t][i].kind \in {"set", "valid"} /\ stack[t][i].pc = "deps"

\* thread t is executing the function of property p
InFunction(t, p) ==
    \E i \in 1 .. Len(stack[t]) :
        stack[t][i].prop = p /\ stack[t][i].kind = "get" /\ stack[t][i].pc = "call"

\* C2: at most one thread at a time is inside the critical section of a
\* (host, property) pair, so the property's function never runs in two threads
\* at once.
C2_MutualExclusion ==
    \A p \in Props(cls) : \A t1, t2 \in PTh :
        t1 # t2 => /\ ~(InSection(t1, p) /\ InSection(t2, p))
                   /\ ~(InFunction(t1, p) /\ InFunction(t2, p))

\* activation f has taken a lock object from the lock map and is about to
\* acquire it, waits for it or holds it
UsesLockObject(f) ==
    \/ f.pc \in {"acquire", "check", "call", "insert", "clear", "recheck",
                  "compare", "release"}
    \/ f.kind \in {"set", "valid"} /\ f.pc = "deps"

\* C17: with per-key locks, the lock object an activation is about to
\* acquire, waits for or holds is the one the lock map has for its key: a lock
\* is not removed from the map while it is in use.
C17_LockNotRemovedInUse ==
    \A t \in PTh : \A i \in 1 .. Len(stack[t]) :
        UsesLockObject(stack[t][i]) => locks[stack[t][i].prop] = stack[t][i].lk

\* C21: the pair a read stores holds the result of the property's function on
\* the dependency values of the stored snapshot, also when another thread
\* changes a dependency between the reader's snapshot and the function's run.
C21_StoredValueMatchesSnapshot ==
    \A t \in PTh : \A i \in 1 .. Len(stack[t]) :
        LET f == stack[t][i] IN
        f.kind = "get" /\ f.pc = "release" /\ f.ran /\ f.err = ""
            => \E id \in 0 .. fresh : f.val = FnResult(cls, f.prop, f.deps, id)

\* C22: leaving a per-key critical section never fails: on a host whose
\* functions and dependencies raise nothing, every read, write, delete and
\* validity check completes without an error, for every interleaving.
C22_SectionExitNeverFails ==
    \A t \in PTh : ret[t].done /\ ret[t].op \in {"get", "set", "del", "valid"}
        => ret[t].err = ""

\* activation f is inside ProcessCache.lock or about to enter it: from the
\* lookup of the lock object to the end of the finally clause
InLockContext(f) ==
    \/ f.pc \in {"lock", "acquire", "check", "call", "insert", "clear", "recheck",
                  "compare", "release", "cleanup"}
    \/ f.kind \in {"set", "valid"} /\ f.pc = "deps"

NoneInLockContext ==
    \A t \in PTh : \A i \in 1 .. Len(stack[t]) : ~InLockContext(stack[t][i])

\* C23: with per-key locks the lock map does not outgrow the store: whenever
\* no thread is inside or about to enter a critical section, every key that
\* has a lock in the map is present in the store.
C23_LockMapWithinStore ==
    NoneInLockContext => \A p \in Props(cls) : locks[p] # 0 => prop_cache[p].full

\* a delete of a filled slot has ended with the key absent and its lock gone,
\* while another key is stored and keeps its lock
C23_Witness ==
    /\ NoneInLockContext
    /\ \E p \in Props(cls) : prop_cache[p].full /\ locks[p] # 0
    /\ \E t \in PTh :
           /\ ret[t].done /\ ret[t].op = "del" /\ ret[t].pre # "empty" /\ ret[t].err = ""
           /\ ~prop_cache[ret[t].prop].full /\ locks[ret[t].prop] = 0

\* --------------------------------------------- the chain of test_lock_collisions
\* several threads read the properties of one Crowded instance
ChainStep(t) ==
    \/ DepStep(t)
    \/ FetchLock(t)
    \/ Acquire(t)
    \/ Check(t)
    \/ CallFn(t)
    \/ Release(t)
    \/ Cleanup(t)

NextChain ==
    \E t \in PTh :
        \/ \E p \in Props(cls) : StartGet(t, p)
        \/ ChainStep(t)

InitChain == InitProp("Crowded") /\ CallAtRest /\ PickAtRest /\ NestAtRest /\ StoreAtRest /\ HashAtRest

SpecChain == InitChain /\ [][NextChain]_vars

\* what p_i holds once resolved: (snapshot of p_(i-1), i)
ChainSlot(p) ==
    [full |-> TRUE,
     snap |-> IF PIndex(p) = 0 THEN << >> ELSE <<PV(PIndex(p) - 1, 0)>>,
     val |-> PV(PIndex(p), 0)]

\* C8 (as amended): the properties of the chain do not share a lock pool: the
\* host's store is unpooled (n_locks = 0) and each property name has a lock
\* object of its own. Reading any p_i never deadlocks (while a read is under
\* way, some thread under way can take a step), raises nothing and returns i,
\* and a filled slot of p_i holds i with the snapshot of p_(i-1), never
\* another property's value.
C8_ChainResolves ==
    /\ n_locks = 0
    /\ \A p, q \in Props(cls) : (p # q /\ locks[p] # 0) => locks[p] # locks[q]
    /\ \A p \in Props(cls) : prop_cache[p].full => prop_cache[p] = ChainSlot(p)
    /\ \A t \in PTh :
          (ret[t].done /\ ret[t].op = "get") =>
              /\ ret[t].err = ""
              /\ ret[t].val = PV(PIndex(ret[t].prop), 0)
    /\ (\E t \in PTh : stack[t] # << >>) =>
          \E t \in PTh : stack[t] # << >> /\ ENABLED ChainStep(t)

\* the last property of the chain was read on an empty host and the whole
\* chain is resolved
C8_Witness ==
    /\ \E t \in PTh :
          /\ ret[t].done /\ ret[t].op = "get" /\ ret[t].pre = "empty"
          /\ ret[t].prop = PName(ChainLen - 1)
          /\ ret[t].val = PV(ChainLen - 1, 0)
    /\ \A p \in Props(cls) : prop_cache[p].full

\* C8 (as stated): the properties share a small fixed lock pool, and every
\* read of the chain returns the right value all the same.
C8_PoolChainResolves ==
    \A t \in PTh :
        (ret[t].done /\ ret[t].op = "get") =>
            /\ n_locks > 0
            /\ ret[t].err = ""
            /\ ret[t].val = PV(PIndex(ret[t].prop), 0)

\* ------------------------------------------------- the cycle of test_recursion
\* several threads work on one RecursiveDependencies instance; with x and y
\* depending on each other, no activation gets as far as the comparison, the
\* function, the insert or the clear (C7_RecursionFailure checks that)
NextCycle ==
    \E t \in PTh :
        \/ \E p \in Props(cls) : StartGet(t, p)
        \/ \E p \in Props(cls) : StartSet(t, p)
        \/ \E p \in Props(cls) : StartDel(t, p)
        \/ \E p \in Props(cls) : StartValid(t, p)
        \/ Precheck(t)
        \/ DepStep(t)
        \/ FetchLock(t)
        \/ Acquire(t)
        \/ Release(t)
        \/ Cleanup(t)

InitCycle == InitProp("RecursiveDependencies") /\ CallAtRest /\ PickAtRest /\ NestAtRest /\ StoreAtRest /\ HashAtRest

SpecCycle == InitCycle /\ [][NextCycle]_vars

\* C7: a read of x or y ends in a RecursionError; its activations never get
\* past reading the dependencies, so the read never waits for a lock, never
\* holds one and never returns a stored value; no slot is ever stored; and no
\* activation of any operation reaches a step NextCycle leaves out.
C7_RecursionFailure ==
    /\ \A t \in PTh :
          (ret[t].done /\ ret[t].op = "get") =>
              /\ ret[t].err = "RecursionError"
              /\ ret[t].val = None
    /\ \A t \in PTh : \A i \in 1 .. Len(stack[t]) :
          /\ stack[t][i].kind = "get" => stack[t][i].pc = "deps"
          /\ stack[t][i].pc \notin {"check", "call", "insert", "clear", "recheck", "compare"}
    /\ \A t \in PTh :
          (stack[t] # << >> /\ ret[t].op = "get") =>
              /\ ENABLED DepStep(t)
              /\ \A i \in 1 .. Len(stack[t]) : stack[t][i].lk \notin held
    /\ \A p \in Props(cls) : ~prop_cache[p].full

\* a read of the cycle has failed with a RecursionError
C7_Witness ==
    \E t \in PTh :
        /\ ret[t].done /\ ret[t].op = "get"
        /\ ret[t].err = "RecursionError"

\* ------------------------------------------- pickled cached properties
\* test_pickled_cached_property: instances of HasPickledCachedProperty, whose
\* 'prop' depends on x, returns (self.x, random.random()) and is saved in
\* tmp_path / "temp_{x}.pkl"; one thread works on them
PickHosts == 1 .. MaxHosts

\* the names "temp_{x}.pkl" can take, named by the x formatted into them
FileNames == 1 .. MaxX

NoFile == [exists |-> FALSE, snap |-> << >>, val |-> None]

\* pdump(item, filename): the file holds the pickled pair
pdump(item) == [exists |-> TRUE, snap |-> item.snap, val |-> item.val]

\* pload(filename): the pair unpickled from the file
pload(file) == [full |-> TRUE, snap |-> file.snap, val |-> file.val]

\* pickled_cached_property.get_filename: the template formatted with the
\* current dependency values
get_filename(h) == pk_x[h].v

\* cached_property.dependency_values for 'prop'
dependency_values(h) == <<pk_x[h]>>

\* _OwnedPicklerCache.full: super().full() or os.path.exists(self.filename)
full_memory_only(h) == pk_mem[h].full

full(h) == pk_mem[h].full \/ pk_files[get_filename(h)].exists

\* _OwnedPicklerCache.retrieve, where full(h): the pair in memory, else the
\* pair loaded from the file (which retrieve also inserts in memory)
retrieve(h) ==
    IF pk_mem[h].full THEN pk_mem[h] ELSE pload(pk_files[get_filename(h)])

\* _OwnedPicklerCache.insert: super().insert(item); pdump(item, self.filename)
insert_file_skipped(h, item) == pk_files

insert_file(h, item) == [pk_files EXCEPT ![get_filename(h)] = pdump(item)]

\* _OwnedPicklerCache.clear: os.remove(filename) if the file exists
clear_file_kept(h) == pk_files

clear_file(h) == [pk_files EXCEPT ![get_filename(h)] = NoFile]

\* what __get__ does with a pair found in memory or in the file: return its
\* value when its snapshot equals the dependency values
UseFound(h, found, deps) == ~MustCompute(found, deps)

PickRet(op, h) ==
    [op |-> op, host |-> h, mem |-> pk_mem[h], file |-> pk_files[get_filename(h)],
     calls |-> pk_calls, ran |-> FALSE, val |-> None, ok |-> FALSE]

NoPickRet == [op |-> "", host |-> 0, mem |-> EmptySlot, file |-> NoFile,
              calls |-> 0, ran |-> FALSE, val |-> None, ok |-> FALSE]

InitPick ==
    /\ pk_x \in [PickHosts -> {PV(k, 0) : k \in 1 .. MaxX}]
    /\ pk_mem = [h \in PickHosts |-> EmptySlot]
    /\ pk_locks = [h \in PickHosts |-> FALSE]
    /\ pk_files = [f \in FileNames |-> NoFile]
    /\ pk_ret = NoPickRet
    /\ pk_calls = 0
    /\ pk_fresh = 0
    /\ pk_nops = 0

\* ProcessCache.lock around an operation of one thread: the lock map makes the
\* entry of 'prop', and the finally clause deletes it when 'prop' is not in
\* the in-memory cache
LockAfter(h, mem) == [pk_locks EXCEPT ![h] = mem.full]

\* HasPickledCachedProperty(v): instance h is replaced by a new object
NewInstance(h, v) ==
    /\ pk_nops < MaxOps
    /\ pk_nops' = pk_nops + 1
    /\ pk_x' = [pk_x EXCEPT ![h] = PV(v, 0)]
    /\ pk_mem' = [pk_mem EXCEPT ![h] = EmptySlot]
    /\ pk_locks' = [pk_locks EXCEPT ![h] = FALSE]
    /\ pk_ret' = [PickRet("new", h) EXCEPT !.mem = EmptySlot, !.file = pk_files[v]]
    /\ UNCHANGED <<pk_files, pk_calls, pk_fresh, exceptPick>>

\* obj.x = v, v another value than the current one
PickSetX(h, v) ==
    /\ pk_nops < MaxOps
    /\ pk_nops' = pk_nops + 1
    /\ pk_x[h] # PV(v, 0)
    /\ pk_x' = [pk_x EXCEPT ![h] = PV(v, 0)]
    /\ pk_ret' = [PickRet("setattr", h) EXCEPT !.file = pk_files[v]]
    /\ UNCHANGED <<pk_mem, pk_locks, pk_files, pk_calls, pk_fresh, exceptPick>>

\* obj.prop: cached_property.__get__ on an _OwnedPicklerCache
PickGet(h) ==
    /\ pk_nops < MaxOps
    /\ pk_nops' = pk_nops + 1
    /\ LET dep_values == dependency_values(h)
           found == IF full(h) THEN retrieve(h) ELSE EmptySlot
           result == PV(pk_x[h].v, pk_fresh + 1)
           item == [full |-> TRUE, snap |-> dep_values, val |-> result]
       IN IF UseFound(h, found, dep_values)
          THEN /\ pk_mem' = [pk_mem EXCEPT ![h] = found]
               /\ pk_locks' = LockAfter(h, found)
               /\ pk_ret' = [PickRet("get", h) EXCEPT !.val = found.val]
               /\ UNCHANGED <<pk_files, pk_calls, pk_fresh>>
          ELSE /\ pk_mem' = [pk_mem EXCEPT ![h] = item]
               /\ pk_files' = insert_file(h, item)
               /\ pk_locks' = LockAfter(h, item)
               /\ pk_calls' = pk_calls + 1
               /\ pk_fresh' = pk_fresh + 1
               /\ pk_ret' = [PickRet("get", h) EXCEPT !.val = result, !.ran = TRUE]
    /\ UNCHANGED <<pk_x, exceptPick>>

\* obj.prop = random.random(): cached_property.__set__
PickSet(h) ==
    /\ pk_nops < MaxOps
    /\ pk_nops' = pk_nops + 1
    /\ LET item == [full |-> TRUE, snap |-> dependency_values(h),
                    val |-> PV(0, pk_fresh + 1)]
       IN /\ pk_mem' = [pk_mem EXCEPT ![h] = item]
          /\ pk_files' = insert_file(h, item)
          /\ pk_locks' = LockAfter(h, item)
          /\ pk_ret' = [PickRet("set", h) EXCEPT !.val = item.val]
    /\ pk_fresh' = pk_fresh + 1
    /\ UNCHANGED <<pk_x, pk_calls, exceptPick>>

\* del obj.prop: cached_property.__delete__
PickDel(h) ==
    /\ pk_nops < MaxOps
    /\ pk_nops' = pk_nops + 1
    /\ IF full(h)
       THEN /\ pk_files' = clear_file(h)
            /\ pk_mem' = [pk_mem EXCEPT ![h] = EmptySlot]
            /\ pk_locks' = LockAfter(h, EmptySlot)
       ELSE UNCHANGED <<pk_files, pk_mem, pk_locks>>
    /\ pk_ret' = PickRet("del", h)
    /\ UNCHANGED <<pk_x, pk_calls, pk_fresh, exceptPick>>

\* type(obj).prop.is_cache_valid(obj)
PickValid(h) ==
    /\ pk_nops < MaxOps
    /\ pk_nops' = pk_nops + 1
    /\ IF full(h)
       THEN /\ pk_mem' = [pk_mem EXCEPT ![h] = retrieve(h)]
            /\ pk_locks' = LockAfter(h, retrieve(h))
            /\ pk_ret' = [PickRet("valid", h) EXCEPT
                             !.ok = SnapshotMatches(retrieve(h).snap, dependency_values(h))]
       ELSE /\ pk_ret' = PickRet("valid", h)
            /\ UNCHANGED <<pk_mem, pk_locks>>
    /\ UNCHANGED <<pk_x, pk_files, pk_calls, pk_fresh, exceptPick>>

NextPick ==
    \E h \in PickHosts :
        \/ \E v \in 1 .. MaxX : NewInstance(h, v)
        \/ \E v \in 1 .. MaxX : PickSetX(h, v)
        \/ PickGet(h)
        \/ PickSet(h)
        \/ PickDel(h)
        \/ PickValid(h)

InitPickled == InitPick /\ CallAtRest /\ PropAtRest /\ NestAtRest /\ StoreAtRest /\ HashAtRest

SpecPick == InitPickled /\ [][NextPick]_vars

\* the dependency values of the instance of the last operation, after it
PickDeps == dependency_values(pk_ret.host)

\* the file the last operation's instance resolves to, after it
PickFile == pk_files[get_filename(pk_ret.host)]

\* C12: the file of x only ever holds a pair computed or written for x; a
\* read that computed and a write leave their value in that file; and a read
\* on an instance whose in-memory slot is empty while the file of its x exists
\* returns the file's value without invoking the function, the loaded pair
\* becoming the in-memory slot.
C12_FreshInstanceLoads ==
    /\ \A f \in FileNames : pk_files[f].exists => pk_files[f].snap = <<PV(f, 0)>>
    /\ ((pk_ret.op = "get" /\ pk_ret.ran) \/ pk_ret.op = "set") =>
          PickFile.exists /\ PickFile.val = pk_ret.val
    /\ (pk_ret.op = "get" /\ ~pk_ret.mem.full /\ pk_ret.file.exists) =>
          /\ ~pk_ret.ran
          /\ pk_calls = pk_ret.calls
          /\ pk_ret.val = pk_ret.file.val
          /\ pk_mem[pk_ret.host] = pload(pk_ret.file)

\* an instance with an empty in-memory slot has read, from the file, an object
\* the function made for another instance
C12_Witness ==
    /\ pk_ret.op = "get" /\ ~pk_ret.mem.full /\ pk_ret.file.exists
    /\ ~pk_ret.ran /\ pk_calls > 0
    /\ pk_ret.val = PV(pk_x[pk_ret.host].v, pk_ret.val.n) /\ pk_ret.val.n > 0
    /\ \E h \in PickHosts : h # pk_ret.host /\ pk_mem[h].val = pk_ret.val

\* C13: after a read that computed and after a write, the file resolved from
\* the current dependency values holds exactly the pair of the in-memory slot,
\* which is (current snapshot, the value returned or written); after a delete
\* that file does not exist and the in-memory slot is empty.
C13_FileMirrorsSlot ==
    /\ ((pk_ret.op = "get" /\ pk_ret.ran) \/ pk_ret.op = "set") =>
          /\ pk_mem[pk_ret.host] = [full |-> TRUE, snap |-> PickDeps, val |-> pk_ret.val]
          /\ PickFile = pdump(pk_mem[pk_ret.host])
          /\ pload(PickFile) = pk_mem[pk_ret.host]
    /\ pk_ret.op = "del" =>
          /\ ~PickFile.exists
          /\ pk_mem[pk_ret.host] = EmptySlot

\* a write has replaced the content of a file that existed
C13_Witness ==
    /\ pk_ret.op = "set"
    /\ pk_ret.file.exists /\ pk_ret.file.val # pk_ret.val
    /\ PickFile.val = pk_ret.val

\* C14: a read takes the value from the in-memory cache when it is there for
\* the current dependency values, else from the file when the resolved file
\* exists, and the function runs only when that file does not exist.
C14_ComputesOnlyWithoutFile ==
    pk_ret.op = "get" =>
        /\ (pk_ret.mem.full /\ pk_ret.mem.snap = PickDeps) =>
              (~pk_ret.ran /\ pk_ret.val = pk_ret.mem.val)
        /\ (~pk_ret.mem.full /\ pk_ret.file.exists) =>
              (~pk_ret.ran /\ pk_ret.val = pk_ret.file.val)
        /\ pk_ret.ran => ~pk_ret.file.exists

\* ------------------------------------------------------ lazy properties
\* test_lazy_property: one thread reads 'prop' of a HasLazyProperty instance,
\* a lazy_property('x', 'y') returning self.x + self.y + random.random(), and
\* assigns x and y
\* getattr(owner, member, None) is None
LazyMissing_absent_only(v) == v = Absent

LazyMissing(v) == v = None \/ v = Absent

\* lazy_property.__get__ finds a dependency that is None or not set
LazyUnset(p) ==
    \E i \in 1 .. Len(Deps(cls, p)) : LazyMissing(Member(Deps(cls, p)[i]))

\* obj.prop: lazy_property.__get__ returns None when a dependency is None or
\* not set, and is cached_property.__get__ otherwise
StartLazyGet(t, p) ==
    /\ stack[t] = << >>
    /\ nops < MaxOps
    /\ nops' = nops + 1
    /\ IF LazyUnset(p)
       THEN /\ ret' = [ret EXCEPT ![t] = [Begin(t, "get", p) EXCEPT !.done = TRUE]]
            /\ stack' = stack
       ELSE /\ ret' = [ret EXCEPT ![t] = Begin(t, "get", p)]
            /\ stack' = [stack EXCEPT ![t] = <<NewFrame("get", p, GetEntry, None)>>]
    /\ UNCHANGED <<cls, attrs, n_locks, prop_cache, locks, held, fresh, hist, exceptProp>>

\* obj.a = None
SetAttrNone(t, a) ==
    /\ stack[t] = << >>
    /\ nops < MaxOps
    /\ nops' = nops + 1
    /\ attrs[a] # None
    /\ attrs' = [attrs EXCEPT ![a] = None]
    /\ hist' = [p \in Props(cls) |->
                   IF \E i \in 1 .. Len(Deps(cls, p)) : Deps(cls, p)[i] = a
                   THEN [hist[p] EXCEPT !.w = None, !.ch = TRUE]
                   ELSE hist[p]]
    /\ ret' = [ret EXCEPT ![t] = [NoRet EXCEPT !.op = "setattr", !.prop = a, !.done = TRUE]]
    /\ UNCHANGED <<cls, n_locks, prop_cache, locks, held, stack, fresh, exceptProp>>

NextLazy ==
    \/ \E p \in Props(cls) : StartLazyGet(1, p)
    \/ \E a \in Attrs(cls), v \in 1 .. MaxX : SetAttr(1, a, v)
    \/ \E a \in Attrs(cls) : SetAttrNone(1, a)
    \/ DepStep(1)
    \/ FetchLock(1)
    \/ Acquire(1)
    \/ Check(1)
    \/ CallFn(1)
    \/ Release(1)
    \/ Cleanup(1)

InitLazy == InitProp("HasLazyProperty") /\ CallAtRest /\ PickAtRest /\ NestAtRest /\ StoreAtRest /\ HashAtRest

SpecLazy == InitLazy /\ [][NextLazy]_vars

\* a declared dependency of p is None or is not an attribute of the host
SomeDependencyUnset(p) ==
    \E i \in 1 .. Len(Deps(cls, p)) : Member(Deps(cls, p)[i]) \in {None, Absent}

\* C15: a read made while a dependency is None or not set returns None
\* without invoking the function, and while a dependency is None or not set no
\* step creates or changes a slot; a read made with all dependencies set
\* invokes the function exactly when the slot is empty or its snapshot differs
\* from the dependency values, and otherwise returns the stored object.
C15_LazyUntilDependenciesSet ==
    /\ [](Did("get") =>
            IF SomeDependencyUnset(ret[1].prop)
            THEN /\ ret[1].val = None /\ ~ret[1].ran /\ ret[1].err = ""
                 /\ hist[ret[1].prop].calls = ret[1].hcalls
            ELSE /\ ret[1].err = "" /\ ret[1].val # None
                 /\ ret[1].ran <=> (ret[1].pre # "valid")
                 /\ ~ret[1].ran => ret[1].val = ret[1].old
                 /\ hist[ret[1].prop].calls = ret[1].hcalls + (IF ret[1].ran THEN 1 ELSE 0)
                 /\ prop_cache[ret[1].prop] =
                       [full |-> TRUE, snap |-> CurSnap(ret[1].prop), val |-> ret[1].val])
    /\ [][(\E p \in Props(cls) : SomeDependencyUnset(p)) =>
            /\ prop_cache' = prop_cache
            /\ \A p \in Props(cls) : hist'[p].calls = hist[p].calls]_vars

\* a read has returned None because a dependency was set back to None, and
\* the slot computed before is still there
C15_Witness ==
    /\ Did("get") /\ SomeDependencyUnset(ret[1].prop)
    /\ ret[1].val = None
    /\ prop_cache[ret[1].prop].full /\ prop_cache[ret[1].prop].val = ret[1].old
    /\ ret[1].old # None

\* ----------------------------- memoized calls made by memoized computations
\* rec(x) is a function whose computation, for x other than 0, makes the
\* memoized call cached_call(rec, 0) on its own store; threads call
\* cached_call(rec, x), process scope
\* the arguments used: 0, one whose key has another pool lock than the key of
\* 0, and one whose key has the same pool lock as the key of 0
NestArgs == {0, 1, CallNLocks}

\* the argument of the memoized call that the computation of rec(a) makes
NestCallee(a) == 0

NestMakesCall(a) == a # 0

NestKey(a) == HashContent(BoundArgs(a))

NestKeys == {NestKey(a) : a \in NestArgs}

NoNestValue == [arg |-> -1, n |-> 0]

\* _cached_call_impl for argument a, before its first instruction
NestFrame(a) ==
    [pc |-> "start", arg |-> a, key |-> NestKey(a), sub |-> NoNestValue,
     result |-> NoNestValue]

InitNest ==
    /\ nest_stack = [t \in Threads |-> << >>]
    /\ nest_cache = [k \in NestKeys |-> NoNestValue]
    /\ nest_held = {}
    /\ nest_invoked = [k \in NestKeys |-> 0]
    /\ nest_ncalls = 0

NestTop(t) == nest_stack[t][Len(nest_stack[t])]

\* the top activation of thread t becomes f
NestSetTop(t, f) ==
    nest_stack' = [nest_stack EXCEPT ![t] = Append(Front(@), f)]

\* cached_call(rec, a) from outside
NestCall(t, a) ==
    /\ nest_stack[t] = << >> \/ (Len(nest_stack[t]) = 1 /\ NestTop(t).pc = "done")
    /\ nest_ncalls < MaxCalls
    /\ nest_ncalls' = nest_ncalls + 1
    /\ nest_stack' = [nest_stack EXCEPT ![t] = <<NestFrame(a)>>]
    /\ UNCHANGED <<nest_cache, nest_held, nest_invoked, exceptNest>>

\* if key not in cache
NestLookup(t) ==
    /\ nest_stack[t] # << >>
    /\ NestTop(t).pc = "start"
    /\ NestSetTop(t, [NestTop(t) EXCEPT !.pc =
           IF nest_cache[NestTop(t).key] # NoNestValue THEN "return" ELSE "lock"])
    /\ UNCHANGED <<nest_cache, nest_held, nest_invoked, nest_ncalls, exceptNest>>

\* with cache.lock(key): the pool lock of the key, a threading.Lock, blocks
\* while anyone holds it, the calling thread included
NestAcquire(t) ==
    /\ nest_stack[t] # << >>
    /\ NestTop(t).pc = "lock"
    /\ LockIndex(NestTop(t).key) \notin nest_held
    /\ nest_held' = nest_held \cup {LockIndex(NestTop(t).key)}
    /\ NestSetTop(t, [NestTop(t) EXCEPT !.pc = "check2"])
    /\ UNCHANGED <<nest_cache, nest_invoked, nest_ncalls, exceptNest>>

\* if key not in cache, under the lock
NestCheck2(t) ==
    /\ nest_stack[t] # << >>
    /\ NestTop(t).pc = "check2"
    /\ NestSetTop(t, [NestTop(t) EXCEPT !.pc =
           IF nest_cache[NestTop(t).key] = NoNestValue THEN "call" ELSE "unlock"])
    /\ UNCHANGED <<nest_cache, nest_held, nest_invoked, nest_ncalls, exceptNest>>

\* callfunc(*args, **kwargs), first part: rec makes its memoized call
NestDescend(t) ==
    /\ nest_stack[t] # << >>
    /\ NestTop(t).pc = "call"
    /\ NestMakesCall(NestTop(t).arg) /\ NestTop(t).sub = NoNestValue
    /\ nest_stack' = [nest_stack EXCEPT ![t] =
           Append(@, NestFrame(NestCallee(NestTop(t).arg)))]
    /\ UNCHANGED <<nest_cache, nest_held, nest_invoked, nest_ncalls, exceptNest>>

\* cache[key] = callfunc(*args, **kwargs): rec returns a new object, which is
\* stored under the key
NestInvoke(t) ==
    /\ nest_stack[t] # << >>
    /\ NestTop(t).pc = "call"
    /\ ~NestMakesCall(NestTop(t).arg) \/ NestTop(t).sub # NoNestValue
    /\ LET f == NestTop(t)
           n == nest_invoked[f.key] + 1
       IN /\ nest_invoked' = [nest_invoked EXCEPT ![f.key] = n]
          /\ nest_cache' = [nest_cache EXCEPT ![f.key] = [arg |-> f.arg, n |-> n]]
          /\ NestSetTop(t, [f EXCEPT !.pc = "unlock"])
    /\ UNCHANGED <<nest_held, nest_ncalls, exceptNest>>

\* leaving the with block releases the pool lock
NestRelease(t) ==
    /\ nest_stack[t] # << >>
    /\ NestTop(t).pc = "unlock"
    /\ nest_held' = nest_held \ {LockIndex(NestTop(t).key)}
    /\ NestSetTop(t, [NestTop(t) EXCEPT !.pc = "return"])
    /\ UNCHANGED <<nest_cache, nest_invoked, nest_ncalls, exceptNest>>

\* return cache[key]: to rec, which made the call, or to the outside
NestReturn(t) ==
    /\ nest_stack[t] # << >>
    /\ NestTop(t).pc = "return"
    /\ LET f == NestTop(t)
           v == nest_cache[f.key]
           rest == Front(nest_stack[t])
       IN nest_stack' = [nest_stack EXCEPT ![t] =
              IF rest = << >> THEN <<[f EXCEPT !.pc = "done", !.result = v]>>
              ELSE Append(Front(rest), [rest[Len(rest)] EXCEPT !.sub = v])]
    /\ UNCHANGED <<nest_cache, nest_held, nest_invoked, nest_ncalls, exceptNest>>

\* the steps of a call under way in thread t
NestStep(t) ==
    \/ NestLookup(t)
    \/ NestAcquire(t)
    \/ NestCheck2(t)
    \/ NestDescend(t)
    \/ NestInvoke(t)
    \/ NestRelease(t)
    \/ NestReturn(t)

NextNest ==
    \E t \in Threads :
        \/ \E a \in NestArgs : NestCall(t, a)
        \/ NestStep(t)

InitNested == InitNest /\ CallAtRest /\ PropAtRest /\ PickAtRest /\ StoreAtRest /\ HashAtRest

SpecNest == InitNested /\ [][NextNest]_vars

\* thread t is in a call that has not returned to the outside
NestUnderWay(t) ==
    nest_stack[t] # << >> /\ nest_stack[t][1].pc # "done"

\* C18: with a pool of locks, a call that has returned holds the value
\* computed for its own key, computed once, and calls complete: while a call
\* is under way, some thread with a call under way can take a step, also when
\* two keys in use have the same pool lock.
C18_PoolContentionHarmless ==
    /\ \A t \in Threads :
          (nest_stack[t] # << >> /\ nest_stack[t][1].pc = "done") =>
              /\ nest_stack[t][1].result.arg = nest_stack[t][1].arg
              /\ nest_invoked[nest_stack[t][1].key] = 1
    /\ (\E t \in Threads : NestUnderWay(t)) =>
          \E t \in Threads : NestUnderWay(t) /\ ENABLED NestStep(t)

\* ------------------------------------------ construction of process stores
\* threads construct ProcessCache(name) on one host (globals()) and write
\* through the instances they get
StNames == {"func", "other"}

\* the objects ProcessCache.__init__ can create: dicts of stores and
\* (cache, locks) tuples, named in the order of their creation
StIds == 1 .. (2 * NThreads * MaxCalls)

NoInstance == [pc |-> "none", name |-> "", cache_store |-> 0, cache |-> 0]

InitStore ==
    /\ st_host = 0
    /\ st_store = [d \in StIds |-> [n \in StNames |-> 0]]
    /\ st_entries = [c \in StIds |-> {}]
    /\ st_lock = 0
    /\ st_th = [t \in Threads |-> NoInstance]
    /\ st_fresh = 0
    /\ st_written = {}
    /\ st_ncons = 0

\* the test repeated after the lock is taken: 'Must check again, after the lock'
StillMissing_unchecked(present) == TRUE

StillMissing(present) == ~present

\* ProcessCache(name): __init__ begins
StConstruct(t, name) ==
    /\ st_th[t].pc \in {"none", "ready"}
    /\ st_ncons < MaxCalls
    /\ st_ncons' = st_ncons + 1
    /\ st_th' = [st_th EXCEPT ![t] = [NoInstance EXCEPT !.pc = "c1", !.name = name]]
    /\ UNCHANGED <<st_host, st_store, st_entries, st_lock, st_fresh, st_written, exceptStore>>

\* if self.STORE_NAME not in host
StCheckHost(t) ==
    /\ st_th[t].pc = "c1"
    /\ st_th' = [st_th EXCEPT ![t].pc = IF st_host = 0 THEN "l1" ELSE "get"]
    /\ UNCHANGED <<st_host, st_store, st_entries, st_lock, st_fresh, st_written, st_ncons, exceptStore>>

\* with self.STORE_LOCK
StAcquire(t) ==
    /\ st_th[t].pc \in {"l1", "l2"}
    /\ st_lock = 0
    /\ st_lock' = t
    /\ st_th' = [st_th EXCEPT ![t].pc = IF @ = "l1" THEN "m1" ELSE "m2"]
    /\ UNCHANGED <<st_host, st_store, st_entries, st_fresh, st_written, st_ncons, exceptStore>>

\* if self.STORE_NAME not in host: host[self.STORE_NAME] = {}
StMakeHost(t) ==
    /\ st_th[t].pc = "m1"
    /\ IF StillMissing(st_host # 0)
       THEN /\ st_fresh' = st_fresh + 1
            /\ st_host' = st_fresh + 1
       ELSE UNCHANGED <<st_fresh, st_host>>
    /\ st_th' = [st_th EXCEPT ![t].pc = "u1"]
    /\ UNCHANGED <<st_store, st_entries, st_lock, st_written, st_ncons, exceptStore>>

\* the with block is left
StRelease(t) ==
    /\ st_th[t].pc \in {"u1", "u2"}
    /\ st_lock' = 0
    /\ st_th' = [st_th EXCEPT ![t].pc = IF @ = "u1" THEN "get" ELSE "bind"]
    /\ UNCHANGED <<st_host, st_store, st_entries, st_fresh, st_written, st_ncons, exceptStore>>

\* cache_store = host[self.STORE_NAME]; if name not in cache_store
StCheckName(t) ==
    /\ st_th[t].pc = "get"
    /\ st_th' = [st_th EXCEPT ![t].cache_store = st_host,
                              ![t].pc = IF st_store[st_host][st_th[t].name] = 0
                                        THEN "l2" ELSE "bind"]
    /\ UNCHANGED <<st_host, st_store, st_entries, st_lock, st_fresh, st_written, st_ncons, exceptStore>>

\* if name not in cache_store: cache_store[name] = ({}, locks)
StMakeStore(t) ==
    /\ st_th[t].pc = "m2"
    /\ LET cs == st_th[t].cache_store
           name == st_th[t].name
       IN IF StillMissing(st_store[cs][name] # 0)
          THEN /\ st_fresh' = st_fresh + 1
               /\ st_store' = [st_store EXCEPT ![cs][name] = st_fresh + 1]
          ELSE UNCHANGED <<st_fresh, st_store>>
    /\ st_th' = [st_th EXCEPT ![t].pc = "u2"]
    /\ UNCHANGED <<st_host, st_entries, st_lock, st_written, st_ncons, exceptStore>>

\* cache, self.locks = cache_store[name]
StBind(t) ==
    /\ st_th[t].pc = "bind"
    /\ st_th' = [st_th EXCEPT ![t].cache = st_store[st_th[t].cache_store][st_th[t].name],
                              ![t].pc = "ready"]
    /\ UNCHANGED <<st_host, st_store, st_entries, st_lock, st_fresh, st_written, st_ncons, exceptStore>>

\* instance[key] = value, with the thread's own key
StWrite(t) ==
    /\ st_th[t].pc = "ready"
    /\ t \notin st_entries[st_th[t].cache]
    /\ st_entries' = [st_entries EXCEPT ![st_th[t].cache] = @ \cup {t}]
    /\ st_written' = st_written \cup {<<st_th[t].name, t>>}
    /\ UNCHANGED <<st_host, st_store, st_lock, st_th, st_fresh, st_ncons, exceptStore>>

NextStore ==
    \E t \in Threads :
        \/ \E name \in StNames : StConstruct(t, name)
        \/ StCheckHost(t)
        \/ StAcquire(t)
        \/ StMakeHost(t)
        \/ StRelease(t)
        \/ StCheckName(t)
        \/ StMakeStore(t)
        \/ StBind(t)
        \/ StWrite(t)

InitStores == InitStore /\ CallAtRest /\ PropAtRest /\ PickAtRest /\ NestAtRest /\ HashAtRest

SpecStore == InitStores /\ [][NextStore]_vars

\* the names for which a (cache, locks) tuple exists in the host's dict of stores
StNamesMade == IF st_host = 0 THEN {} ELSE {n \in StNames : st_store[st_host][n] # 0}

\* C19: whatever the interleaving, one dict of stores is created for the host
\* and one (cache, locks) tuple for each name constructed; every instance
\* refers to the tuple the host has for its name; and every key written
\* through an instance is in that tuple's cache.
C19_StoreCreatedOnce ==
    /\ st_fresh = (IF st_host = 0 THEN 0 ELSE 1) + Cardinality(StNamesMade)
    /\ \A t \in Threads :
          /\ st_th[t].cache_store # 0 => st_th[t].cache_store = st_host
          /\ st_th[t].pc = "ready" =>
                /\ st_th[t].cache # 0
                /\ st_th[t].cache = st_store[st_host][st_th[t].name]
    /\ \A w \in st_written : w[2] \in st_entries[st_store[st_host][w[1]]]

\* two threads that constructed the same store concurrently hold the same
\* tuple and see each other's entries
C19_Witness ==
    \E t1, t2 \in Threads :
        /\ t1 # t2
        /\ st_th[t1].pc = "ready" /\ st_th[t2].pc = "ready"
        /\ st_th[t1].name = st_th[t2].name
        /\ st_th[t1].cache = st_th[t2].cache
        /\ st_entries[st_th[t1].cache] = {t1, t2}
        /\ st_ncons = 2

\* ------------------------------- every operation on an acyclic host, many threads
\* several threads read, write, delete and test the properties of one Crowded
\* instance, whose dependencies form a chain and whose functions read their
\* declared dependency only
AcyclicStep(t) ==
    \/ Precheck(t)
    \/ DepStep(t)
    \/ FetchLock(t)
    \/ Acquire(t)
    \/ Check(t)
    \/ CallFn(t)
    \/ Insert(t)
    \/ Clear(t)
    \/ Recheck(t)
    \/ Compare(t)
    \/ Release(t)
    \/ Cleanup(t)

NextAcyclic ==
    \E t \in PTh :
        \/ \E p \in Props(cls) : nops < MaxAcyclicOps /\ StartGet(t, p)
        \/ \E p \in Props(cls) : nops < MaxAcyclicOps /\ StartSet(t, p)
        \/ \E p \in Props(cls) : nops < MaxAcyclicOps /\ StartDel(t, p)
        \/ \E p \in Props(cls) : nops < MaxAcyclicOps /\ StartValid(t, p)
        \/ AcyclicStep(t)

InitAcyclic == InitProp("Crowded") /\ CallAtRest /\ PickAtRest /\ NestAtRest /\ StoreAtRest /\ HashAtRest

SpecAcyclic == InitAcyclic /\ [][NextAcyclic]_vars

\* the properties among the declared dependencies of p
DirectDeps(c, p) == {Deps(c, p)[i] : i \in 1 .. Len(Deps(c, p))} \cap Props(c)

RECURSIVE DepsWithin(_, _, _)
DepsWithin(c, S, n) ==
    IF n = 0 THEN S
    ELSE DepsWithin(c, S \cup UNION {DirectDeps(c, q) : q \in S}, n - 1)

\* the properties p depends on, directly or through other properties
AllDeps(c, p) == DepsWithin(c, DirectDeps(c, p), Cardinality(Props(c)))

\* activation f holds the lock it took
HoldsLock(f) ==
    \/ f.pc \in {"check", "call", "insert", "clear", "recheck", "compare", "release"}
    \/ f.kind \in {"set", "valid"} /\ f.pc = "deps"

\* C20: on a host with acyclic dependencies no interleaving of reads, writes,
\* deletes and validity checks deadlocks: while an operation is under way,
\* some thread with an operation under way can take a step. A read has its
\* whole dependency snapshot when it goes for its property's lock, and a
\* lock is wanted or held under a held lock only for a property that the
\* holder's property depends on.
C20_NoDeadlockOnAcyclicHost ==
    /\ \A p \in Props(cls) : p \notin AllDeps(cls, p)
    /\ (\E t \in PTh : stack[t] # << >>) =>
          \E t \in PTh : stack[t] # << >> /\ ENABLED AcyclicStep(t)
    /\ \A t \in PTh : \A i \in 1 .. Len(stack[t]) :
          (stack[t][i].kind = "get" /\ stack[t][i].pc \in {"lock", "acquire", "check", "call"}) =>
              Len(stack[t][i].deps) = Len(Deps(cls, stack[t][i].prop))
    /\ \A t \in PTh : \A i, j \in 1 .. Len(stack[t]) :
          (i < j /\ HoldsLock(stack[t][i])
                 /\ (HoldsLock(stack[t][j]) \/ stack[t][j].pc \in {"lock", "acquire"})) =>
              stack[t][j].prop \in AllDeps(cls, stack[t][i].prop)

\* a thread waits for a lock while another thread holds two locks, one taken
\* under the other
C20_Witness ==
    \E t1, t2 \in PTh :
        /\ t1 # t2
        /\ stack[t2] # << >> /\ Top(t2).pc = "acquire" /\ Top(t2).lk \in held
        /\ \E i, j \in 1 .. Len(stack[t1]) :
              i < j /\ HoldsLock(stack[t1][i]) /\ HoldsLock(stack[t1][j])

\* ------------------------------------------------ computations that raise
\* Two kinds of callers of a computation that can raise, each explored with
\* several threads: memoized calls of boom in both scopes, and every operation
\* on the property 'inverse' of a HasFailingProperty instance, whose function
\* raises while x is 1. A behaviour makes calls of one kind.
FailStep(t) ==
    \/ \E a \in ArgInts, scope \in Scopes :
           nops = 0 /\ CallStart(t, "boom", a, scope)
    \/ CallAcquire(t)
    \/ CallCheck2(t)
    \/ CallInvoke(t)
    \/ CallRelease(t)
    \/ CallReturn(t)
    \/ \E p \in Props(cls) : ncalls = 0 /\ StartGet(t, p)
    \/ \E p \in Props(cls) : ncalls = 0 /\ StartSet(t, p)
    \/ \E p \in Props(cls) : ncalls = 0 /\ StartDel(t, p)
    \/ \E p \in Props(cls) : ncalls = 0 /\ StartValid(t, p)
    \/ \E a \in Attrs(cls), v \in 1 .. MaxX : ncalls = 0 /\ SetAttr(t, a, v)
    \/ Precheck(t)
    \/ DepStep(t)
    \/ FetchLock(t)
    \/ Acquire(t)
    \/ Check(t)
    \/ CallFn(t)
    \/ Insert(t)
    \/ Clear(t)
    \/ Recheck(t)
    \/ Compare(t)
    \/ Release(t)
    \/ Cleanup(t)

NextFail == \E t \in PTh : FailStep(t)

InitFail == InitProp("HasFailingProperty") /\ CallAtRest /\ PickAtRest /\ NestAtRest /\ StoreAtRest /\ HashAtRest

SpecFail == InitFail /\ [][NextFail]_vars

\* thread t's memoized call has failed: its computation raised
CallFailed(t) == frame[t].pc \in {"unlock_raise", "failed"}

\* activation f's function is about to raise or has raised, and the exception
\* is on its way out
Raising(f) ==
    \/ f.err = "ZeroDivisionError"
    \/ /\ f.kind = "get" /\ f.pc = "call"
       /\ f.i > Len(FnReads(cls, f.prop))
       /\ FnRaises(cls, f.prop, f.rd)

\* every held lock is held by an activation that is still inside its with block
LocksHaveHolders ==
    /\ \A lk \in pool_held : \E t \in Threads :
           /\ frame[t].scope = "process"
           /\ frame[t].pc \in {"check2", "call", "unlock", "unlock_raise"}
           /\ lk = <<frame[t].name, LockIndex(frame[t].key)>>
    /\ \A l \in held : \E t \in PTh : \E i \in 1 .. Len(stack[t]) :
           stack[t][i].lk = l /\ HoldsLock(stack[t][i])

ArgValues ==
    {IntVal(1), [t |-> "tuple", v |-> <<1, 2>>], [t |-> "tuple", v |-> <<2, 1>>],
     [t |-> "list", v |-> <<1, 2>>]}

\* the memoized callables: def pair(x, y) and def kw(**kwargs)
HashFns == {"pair", "kw"}

\* the keyword arguments of a call, in the order the caller writes them:
\* x=.., y=.. or y=.., x=..
Supplies ==
    {s \in {<< <<n1, v1>>, <<n2, v2>> >> :
                 n1 \in {"x", "y"}, n2 \in {"x", "y"},
                 v1 \in ArgValues, v2 \in ArgValues} : s[1][1] # s[2][1]}

\* a dict: its items in insertion order
Dict(items) == [t |-> "dict", v |-> items]

ValueOf(items, name) == items[CHOOSE i \in 1 .. Len(items) : items[i][1] = name][2]

\* inspect.signature(callfunc).bind(**kwargs).arguments: the named parameters
\* in the order of the signature; a ** parameter collects the keywords in a
\* dict, in the order they were written
bind(fn, supply) ==
    IF fn = "pair"
    THEN << <<"x", ValueOf(supply, "x")>>, <<"y", ValueOf(supply, "y")>> >>
    ELSE << <<"kwargs", Dict(supply)>> >>

\* frozenset(...) of a sequence of pairs
frozenset_ordered(pairs) == pairs

frozenset(pairs) == {pairs[i] : i \in 1 .. Len(pairs)}

\* _hash_content, mappings nested in mappings included: a dict becomes the
\* frozenset of its (key, _hash_content(value)) pairs, hashed with its type
\* name; every other value as HashValue has it
RECURSIVE hash_content(_)
hash_content(obj) ==
    IF obj.t = "dict"
    THEN <<frozenset([i \in 1 .. Len(obj.v) |->
                          <<obj.v[i][1], hash_content(obj.v[i][2])>>]),
           TypeCode("dict")>>
    ELSE HashValue(obj)

\* cached_call(fn, **supply, scope='thread') by one thread: the arguments are
\* bound and hashed, the store named after fn is looked up, and on a miss fn
\* runs and the object it returns is stored
HashCall(fn, supply) ==
    /\ Len(hc_log) < MaxHashCalls
    /\ LET key == hash_content(Dict(bind(fn, supply)))
           found == {e \in hc_store : e[1] = fn /\ e[2] = key}
           obj == IF found # {} THEN (CHOOSE e \in found : TRUE)[3] ELSE Len(hc_log) + 1
       IN /\ hc_store' = hc_store \cup {<<fn, key, obj>>}
          /\ hc_log' = Append(hc_log, [fn |-> fn, supply |-> supply, key |-> key,
                                       result |-> obj, ran |-> found = {}])
    /\ UNCHANGED exceptHash

NextHash == \E fn \in HashFns, supply \in Supplies : HashCall(fn, supply)

InitHash == HashAtRest /\ CallAtRest /\ PropAtRest /\ PickAtRest /\ NestAtRest /\ StoreAtRest

SpecHash == InitHash /\ [][NextHash]_vars

\* two calls were given the same (name, value) pairs
SameArguments(s1, s2) ==
    {s1[i] : i \in 1 .. Len(s1)} = {s2[i] : i \in 1 .. Len(s2)}

\* C25: the memoization key of a mapping does not depend on the order of its
\* keys, while the order of an iterable's elements counts: two calls of the
\* same callable given the same (name, value) pairs in any order get the same
\* key and share one cache entry, computed once; calls that get the same key
\* were given the same pairs, so tuples that differ in the order of their
\* elements are told apart.
C25_KeyIgnoresArgumentOrder ==
    \A i, j \in 1 .. Len(hc_log) :
        LET c1 == hc_log[i]
            c2 == hc_log[j]
        IN c1.fn = c2.fn =>
              /\ SameArguments(c1.supply, c2.supply) =>
                    /\ c1.key = c2.key
                    /\ c1.result = c2.result
                    /\ i < j => ~c2.ran
              /\ c1.key = c2.key => SameArguments(c1.supply, c2.supply)

\* kw was called twice with the same keywords, a tuple among them, written in
\* a different order, and the second call found the first call's entry
C25_Witness ==
    /\ Len(hc_log) = 2
    /\ hc_log[1].fn = "kw" /\ hc_log[2].fn = "kw"
    /\ hc_log[1].supply # hc_log[2].supply
    /\ SameArguments(hc_log[1].supply, hc_log[2].supply)
    /\ ValueOf(hc_log[1].supply, "x").t = "tuple"
    /\ hc_log[1].ran /\ ~hc_log[2].ran
    /\ hc_log[1].result = hc_log[2].result
====
